---- MODULE Spec2Model ----
(***************************************************************************)
(* Model of backend/cube_engine.py: the Polyhedron face grid, its twelve   *)
(* elementary turns, the composite middle-slice turn, the notation         *)
(* dispatcher, the Kociemba serializer, the solution tokenizer and the     *)
(* three API handlers (/move, /solve, /reset-cube).                        *)
(*                                                                         *)
(* Representation.  The 6x3x3 NumPy matrix is a function                   *)
(* [0..5 -> [0..2 -> [0..2 -> Int]]].  A 1-D NumPy slice (row or column)   *)
(* is a function [0..2 -> Int].  Python strings that the code indexes or   *)
(* splits (the cube string, the solver output, the parsed tokens) are      *)
(* sequences of one-character strings; move tokens that are only looked    *)
(* up in the dispatcher dict are TLA+ strings.  The entries of the list    *)
(* the tokenizer returns carry their Python type (str or list).            *)
(***************************************************************************)
EXTENDS Integers, Sequences, FiniteSets, TLC

VARIABLES
    matrix,        \* polyhedron_engine_instance.matrix
    response,      \* the HTTP response of the last request handled
    oracle_calls,  \* arguments of the calls of kociemba.solve made by the last request
    oracle_outcome,\* what the call of kociemba.solve made by the last request did
    moves_applied, \* number of moves dispatched since construction or the last reset
    requests,      \* concurrent callers: the requests accepted so far, in order of arrival
    served,        \* concurrent callers: the requests in the order their grid access ran
    oracle_moves,  \* stand-alone tokenizer run: the moves the solver output encodes
    solution_str,  \* stand-alone tokenizer run: argument of _tokenize_solution_string
    tokens,        \* stand-alone tokenizer run: the list returned
    tok_pc         \* stand-alone tokenizer run: "ready" before the call, "done" after

vars == <<matrix, response, oracle_calls, oracle_outcome, moves_applied, requests, served,
          oracle_moves, solution_str, tokens, tok_pc>>

\* ---- bounds ----------------------------------------------------------------
MaxMoves == 2
MaxSolLen == 2
MaxRequests == 2

\* ---- module constants ------------------------------------------------------
Idx == 0..2
FaceIds == 0..5

FACE_MAP == [face_id \in FaceIds |->
               CASE face_id = 0 -> "U"
                 [] face_id = 1 -> "R"
                 [] face_id = 2 -> "F"
                 [] face_id = 3 -> "D"
                 [] face_id = 4 -> "L"
                 [] face_id = 5 -> "B"]

\* "URFDLB" as Python iterates it
FaceLetters == <<"U", "R", "F", "D", "L", "B">>

\* f * 9 : a string repeated n times
RECURSIVE Repeat(_, _)
Repeat(s, n) == IF n = 0 THEN <<>> ELSE s \o Repeat(s, n - 1)

\* "".join(parts)
RECURSIVE Join(_)
Join(parts) == IF parts = <<>> THEN <<>> ELSE Head(parts) \o Join(Tail(parts))

\* the sentinel built over the faces in another order
SOLVED_KOCIEMBA_STRING_UDLRFB ==
    Join([k \in 1..6 |-> Repeat(<<(<<"U", "D", "L", "R", "F", "B">>)[k]>>, 9)])

SOLVED_KOCIEMBA_STRING ==
    Join([k \in 1..Len(FaceLetters) |-> Repeat(<<FaceLetters[k]>>, 9)])

\* ---- Polyhedron: state representation ---------------------------------------
_get_pristine_state ==
    [face_id \in FaceIds |-> [r \in Idx |-> [c \in Idx |-> face_id]]]

\* ndarray.flatten() in C order: faces, then rows, then columns
FlattenRow(row) == <<row[0], row[1], row[2]>>
\* flatten in Fortran (column-major) order within a face
FlattenFace_column_major(face) ==
    <<face[0][0], face[1][0], face[2][0]>> \o <<face[0][1], face[1][1], face[2][1]>> \o
    <<face[0][2], face[1][2], face[2][2]>>
FlattenFace(face) == FlattenRow(face[0]) \o FlattenRow(face[1]) \o FlattenRow(face[2])
Flatten(m) ==
    FlattenFace(m[0]) \o FlattenFace(m[1]) \o FlattenFace(m[2]) \o
    FlattenFace(m[3]) \o FlattenFace(m[4]) \o FlattenFace(m[5])

to_kociemba_string(m) ==
    LET flat_array == Flatten(m)
    IN  [k \in 1..Len(flat_array) |-> FACE_MAP[flat_array[k]]]

\* ---- NumPy helpers -----------------------------------------------------------
\* np.rot90(a, -1): clockwise quarter rotation
Rot90Neg(a) == [i \in Idx |-> [j \in Idx |-> a[2 - j][i]]]
\* np.rot90(a, 1): counter-clockwise quarter rotation
Rot90Pos(a) == [i \in Idx |-> [j \in Idx |-> a[j][2 - i]]]
\* np.flip of a 1-D slice
Flip(v) == [i \in Idx |-> v[2 - i]]
\* np.flipud of a 3x3 face
FlipUD(a) == [i \in Idx |-> a[2 - i]]
\* a[r, :] and a[:, c]
Row(a, r) == [j \in Idx |-> a[r][j]]
Col(a, c) == [i \in Idx |-> a[i][c]]
\* self.matrix[f][r, :] = v   and   self.matrix[f][:, c] = v   and   self.matrix[f] = a
SetRow(m, f, r, v) == [m EXCEPT ![f][r] = v]
SetCol(m, f, c, v) == [m EXCEPT ![f] = [i \in Idx |-> [@[i] EXCEPT ![c] = v[i]]]]
SetFace(m, f, a) == [m EXCEPT ![f] = a]

\* ---- Matrix transformations ---------------------------------------------------
_rotate_layer_clockwise(m, face_idx) == SetFace(m, face_idx, Rot90Neg(m[face_idx]))

_rotate_layer_counter_clockwise(m, face_idx) == SetFace(m, face_idx, Rot90Pos(m[face_idx]))

\* ---- Face turns ---------------------------------------------------------------
\* _turn_F_cw with the strips exchanged the counter-clockwise way round
_turn_F_cw_reversed_cycle(m) ==
    LET m0 == _rotate_layer_clockwise(m, 2)
        temp == Row(m0[0], 2)
        m1 == SetRow(m0, 0, 2, Col(m0[1], 0))
        m2 == SetCol(m1, 1, 0, Flip(Row(m1[3], 0)))
        m3 == SetRow(m2, 3, 0, Col(m2[4], 2))
    IN  SetCol(m3, 4, 2, Flip(temp))

_turn_F_cw(m) ==
    LET m0 == _rotate_layer_clockwise(m, 2)
        temp == Row(m0[0], 2)
        m1 == SetRow(m0, 0, 2, Flip(Col(m0[4], 2)))
        m2 == SetCol(m1, 4, 2, Row(m1[3], 0))
        m3 == SetRow(m2, 3, 0, Flip(Col(m2[1], 0)))
    IN  SetCol(m3, 1, 0, temp)

_turn_F_ccw(m) ==
    LET m0 == _rotate_layer_counter_clockwise(m, 2)
        temp == Row(m0[0], 2)
        m1 == SetRow(m0, 0, 2, Col(m0[1], 0))
        m2 == SetCol(m1, 1, 0, Flip(Row(m1[3], 0)))
        m3 == SetRow(m2, 3, 0, Col(m2[4], 2))
    IN  SetCol(m3, 4, 2, Flip(temp))

_turn_R_cw(m) ==
    LET m0 == _rotate_layer_clockwise(m, 1)
        temp == Flip(Col(m0[0], 2))
        m1 == SetCol(m0, 0, 2, Col(m0[2], 2))
        m2 == SetCol(m1, 2, 2, Col(m1[3], 2))
        m3 == SetCol(m2, 3, 2, Flip(Col(m2[5], 0)))
    IN  SetCol(m3, 5, 0, temp)

_turn_R_ccw(m) ==
    LET m0 == _rotate_layer_counter_clockwise(m, 1)
        temp == Col(m0[0], 2)
        m1 == SetCol(m0, 0, 2, Col(m0[5], 0))
        m2 == SetCol(m1, 5, 0, Flip(Col(m1[3], 2)))
        m3 == SetCol(m2, 3, 2, Col(m2[2], 2))
    IN  SetCol(m3, 2, 2, temp)

\* _turn_U_cw exchanging row 1 of the side faces instead of row 0
_turn_U_cw_middle_row(m) ==
    LET m0 == _rotate_layer_clockwise(m, 0)
        temp == Row(m0[4], 1)
        m1 == SetRow(m0, 4, 1, Row(m0[2], 1))
        m2 == SetRow(m1, 2, 1, Row(m1[1], 1))
        m3 == SetRow(m2, 1, 1, Row(m2[5], 1))
    IN  SetRow(m3, 5, 1, temp)

_turn_U_cw(m) ==
    LET m0 == _rotate_layer_clockwise(m, 0)
        temp == Row(m0[4], 0)
        m1 == SetRow(m0, 4, 0, Row(m0[2], 0))
        m2 == SetRow(m1, 2, 0, Row(m1[1], 0))
        m3 == SetRow(m2, 1, 0, Row(m2[5], 0))
    IN  SetRow(m3, 5, 0, temp)

_turn_U_ccw(m) ==
    LET m0 == _rotate_layer_counter_clockwise(m, 0)
        temp == Row(m0[4], 0)
        m1 == SetRow(m0, 4, 0, Row(m0[5], 0))
        m2 == SetRow(m1, 5, 0, Row(m1[1], 0))
        m3 == SetRow(m2, 1, 0, Row(m2[2], 0))
    IN  SetRow(m3, 2, 0, temp)

_turn_L_cw(m) ==
    LET m0 == _rotate_layer_clockwise(m, 4)
        temp == Col(m0[0], 0)
        m1 == SetCol(m0, 0, 0, Flip(Col(m0[5], 2)))
        m2 == SetCol(m1, 5, 2, Flip(Col(m1[3], 0)))
        m3 == SetCol(m2, 3, 0, Col(m2[2], 0))
    IN  SetCol(m3, 2, 0, temp)

_turn_L_ccw(m) ==
    LET m0 == _rotate_layer_counter_clockwise(m, 4)
        temp == Flip(Col(m0[0], 0))
        m1 == SetCol(m0, 0, 0, Col(m0[2], 0))
        m2 == SetCol(m1, 2, 0, Col(m1[3], 0))
        m3 == SetCol(m2, 3, 0, Flip(Col(m2[5], 2)))
    IN  SetCol(m3, 5, 2, temp)

\* _turn_D_cw with temp taken without .copy(): temp is a view of the Left row that
\* the first assignment overwrites
_turn_D_cw_no_copy(m) ==
    LET m0 == _rotate_layer_clockwise(m, 3)
        m1 == SetRow(m0, 4, 2, Row(m0[5], 2))
        m2 == SetRow(m1, 5, 2, Row(m1[1], 2))
        m3 == SetRow(m2, 1, 2, Row(m2[2], 2))
    IN  SetRow(m3, 2, 2, Row(m3[4], 2))

_turn_D_cw(m) ==
    LET m0 == _rotate_layer_clockwise(m, 3)
        temp == Row(m0[4], 2)
        m1 == SetRow(m0, 4, 2, Row(m0[5], 2))
        m2 == SetRow(m1, 5, 2, Row(m1[1], 2))
        m3 == SetRow(m2, 1, 2, Row(m2[2], 2))
    IN  SetRow(m3, 2, 2, temp)

_turn_D_ccw(m) ==
    LET m0 == _rotate_layer_counter_clockwise(m, 3)
        temp == Row(m0[4], 2)
        m1 == SetRow(m0, 4, 2, Row(m0[2], 2))
        m2 == SetRow(m1, 2, 2, Row(m1[1], 2))
        m3 == SetRow(m2, 1, 2, Row(m2[5], 2))
    IN  SetRow(m3, 5, 2, temp)

_turn_B_cw(m) ==
    LET m0 == _rotate_layer_clockwise(m, 5)
        temp == Flip(Row(m0[0], 0))
        m1 == SetRow(m0, 0, 0, Col(m0[1], 2))
        m2 == SetCol(m1, 1, 2, Flip(Row(m1[3], 2)))
        m3 == SetRow(m2, 3, 2, Col(m2[4], 0))
    IN  SetCol(m3, 4, 0, temp)

_turn_B_ccw(m) ==
    LET m0 == _rotate_layer_counter_clockwise(m, 5)
        temp == Row(m0[0], 0)
        m1 == SetRow(m0, 0, 0, Flip(Col(m0[4], 0)))
        m2 == SetCol(m1, 4, 0, Row(m1[3], 2))
        m3 == SetRow(m2, 3, 2, Flip(Col(m2[1], 2)))
    IN  SetCol(m3, 1, 2, temp)

\* ---- Whole-grid reorientation ---------------------------------------------------
\* _orient_x_pos with temp taken without .copy(): Back receives the new Up face
_orient_x_pos_no_copy(m) ==
    LET m1 == SetFace(m, 0, m[2])
        m2 == SetFace(m1, 2, m1[3])
        m3 == SetFace(m2, 3, FlipUD(m2[5]))
        m4 == SetFace(m3, 5, FlipUD(m3[0]))
        m5 == _rotate_layer_clockwise(m4, 1)
    IN  _rotate_layer_counter_clockwise(m5, 4)

_orient_x_pos(m) ==
    LET temp == m[0]
        m1 == SetFace(m, 0, m[2])
        m2 == SetFace(m1, 2, m1[3])
        m3 == SetFace(m2, 3, FlipUD(m2[5]))
        m4 == SetFace(m3, 5, FlipUD(temp))
        m5 == _rotate_layer_clockwise(m4, 1)
    IN  _rotate_layer_counter_clockwise(m5, 4)

\* _orient_x_neg with the Right and Left rotations copied from _orient_x_pos
_orient_x_neg_same_rotation(m) ==
    LET temp == m[0]
        m1 == SetFace(m, 0, FlipUD(m[5]))
        m2 == SetFace(m1, 5, FlipUD(m1[3]))
        m3 == SetFace(m2, 3, m2[2])
        m4 == SetFace(m3, 2, temp)
        m5 == _rotate_layer_clockwise(m4, 1)
    IN  _rotate_layer_counter_clockwise(m5, 4)

_orient_x_neg(m) ==
    LET temp == m[0]
        m1 == SetFace(m, 0, FlipUD(m[5]))
        m2 == SetFace(m1, 5, FlipUD(m1[3]))
        m3 == SetFace(m2, 3, m2[2])
        m4 == SetFace(m3, 2, temp)
        m5 == _rotate_layer_counter_clockwise(m4, 1)
    IN  _rotate_layer_clockwise(m5, 4)

\* ---- Public move execution --------------------------------------------------------
\* keys of self._move_dispatcher
MoveTokens == {"F", "F'", "R", "R'", "U", "U'", "L", "L'", "D", "D'", "B", "B'", "M", "M'"}

\* self._move_dispatcher[move_notation]() applied to the grid m
_move_dispatcher(move_notation, m) ==
    CASE move_notation = "F"  -> _turn_F_cw(m)
      [] move_notation = "F'" -> _turn_F_ccw(m)
      [] move_notation = "R"  -> _turn_R_cw(m)
      [] move_notation = "R'" -> _turn_R_ccw(m)
      [] move_notation = "U"  -> _turn_U_cw(m)
      [] move_notation = "U'" -> _turn_U_ccw(m)
      [] move_notation = "L"  -> _turn_L_cw(m)
      [] move_notation = "L'" -> _turn_L_ccw(m)
      [] move_notation = "D"  -> _turn_D_cw(m)
      [] move_notation = "D'" -> _turn_D_ccw(m)
      [] move_notation = "B"  -> _turn_B_cw(m)
      [] move_notation = "B'" -> _turn_B_ccw(m)
      [] move_notation = "M"  -> _orient_x_pos(_turn_L_cw(_turn_R_ccw(m)))
      [] move_notation = "M'" -> _orient_x_neg(_turn_L_ccw(_turn_R_cw(m)))

\* execute_manipulation that reads a trailing "2" as a double turn instead of rejecting it
execute_manipulation_double(move_notation, m) ==
    IF move_notation = "R2"
    THEN [ok |-> TRUE, matrix |-> _turn_R_cw(_turn_R_cw(m)), error |-> ""]
    ELSE IF move_notation \notin MoveTokens
    THEN [ok |-> FALSE, matrix |-> m,
          error |-> "Unknown move notation: " \o move_notation]
    ELSE [ok |-> TRUE, matrix |-> _move_dispatcher(move_notation, m), error |-> ""]

\* execute_manipulation: [ok, matrix] where ok = FALSE stands for the raised ValueError
execute_manipulation(move_notation, m) ==
    IF move_notation \notin MoveTokens
    THEN [ok |-> FALSE, matrix |-> m,
          error |-> "Unknown move notation: " \o move_notation]
    ELSE [ok |-> TRUE, matrix |-> _move_dispatcher(move_notation, m), error |-> ""]

\* ---- Solution tokenizer ---------------------------------------------------------
Whitespace == {" "}

\* str.split(): the maximal runs of non-whitespace characters, in order
RECURSIVE SplitFrom(_, _, _)
SplitFrom(s, k, word) ==
    IF k > Len(s)
    THEN IF word = <<>> THEN <<>> ELSE <<word>>
    ELSE IF s[k] \in Whitespace
         THEN IF word = <<>>
              THEN SplitFrom(s, k + 1, <<>>)
              ELSE <<word>> \o SplitFrom(s, k + 1, <<>>)
         ELSE SplitFrom(s, k + 1, Append(word, s[k]))

Split(s) == SplitFrom(s, 1, <<>>)

\* "2" in move
Contains(move, ch) == \E k \in 1..Len(move) : move[k] = ch

\* Python values of the returned list: a str, or a list of strs
PyStr(chars) == [type |-> "str", value |-> chars]
PyList(items) == [type |-> "list", value |-> items]

\* the loop with base_move = move instead of move[0]
RECURSIVE TokenizeFrom_whole_move(_, _)
TokenizeFrom_whole_move(words, k) ==
    IF k > Len(words)
    THEN <<>>
    ELSE LET move == words[k]
         IN  IF Contains(move, "2")
             THEN <<PyList(<<move, move>>)>> \o TokenizeFrom_whole_move(words, k + 1)
             ELSE <<PyStr(move)>> \o TokenizeFrom_whole_move(words, k + 1)

\* the loop of _tokenize_solution_string over the split words, from word k on
RECURSIVE TokenizeFrom(_, _)
TokenizeFrom(words, k) ==
    IF k > Len(words)
    THEN <<>>
    ELSE LET move == words[k]
         IN  IF Contains(move, "2")
             THEN LET base_move == <<move[1]>>
                  IN  <<PyList(<<base_move, base_move>>)>> \o TokenizeFrom(words, k + 1)
             ELSE <<PyStr(move)>> \o TokenizeFrom(words, k + 1)

_tokenize_solution_string(str) == TokenizeFrom(Split(str), 1)

\* ---- External solving oracle (kociemba.solve), a black box ----------------------------
\* the tokens the solver emits: X, X' and X2 for the six faces
OracleTokens ==
    UNION {{<<FaceLetters[k]>>, <<FaceLetters[k], "'">>, <<FaceLetters[k], "2">>} :
           k \in 1..Len(FaceLetters)}

\* a solver output: the tokens separated by single blanks
RECURSIVE Render(_)
Render(ts) ==
    IF ts = <<>> THEN <<>>
    ELSE IF Len(ts) = 1 THEN Head(ts)
    ELSE Head(ts) \o <<" ">> \o Render(Tail(ts))

ExampleMoves == << <<"R", "2">>, <<"U">>, <<"F", "'">>, <<"D", "2">> >>

\* the solver outputs tried by the /solve handler
OracleSamples == {<<>>, << <<"U">> >>, << <<"L", "'">>, <<"B", "2">> >>, ExampleMoves}

\* the messages of the ValueError the solver raises on a string it rejects
OracleRejections == {"Error. Probably cubestring is invalid"}

\* ---- API layer ---------------------------------------------------------------------------
\* payload.get("move") when the key is absent
None == "<None>"

\* the values of payload.get("move") tried: the supported tokens, unsupported ones,
\* the empty string and a missing key
UnknownTokens == {"X", "R2", "M2", "u"}
Payloads == MoveTokens \cup UnknownTokens \cup {"", None}

HTTPException(op, status_code, detail) ==
    [op |-> op, status |-> status_code, body |-> [detail |-> detail]]

Ok(op, body) == [op |-> op, status |-> 200, body |-> body]

TokUnchanged == UNCHANGED <<oracle_moves, solution_str, tokens, tok_pc>>

\* what solve() did: nothing (not called), returned a string, raised ValueError(message),
\* raised another exception
NoOutcome == [kind |-> "none", value |-> <<>>]
Returned(solution_path) == [kind |-> "returned", value |-> solution_path]
Raised(kind, message) == [kind |-> kind, value |-> message]

\* POST /move
process_manipulation(move) ==
    /\ TokUnchanged
    /\ oracle_calls' = <<>>
    /\ oracle_outcome' = NoOutcome
    /\ IF move = "" \/ move = None
       THEN /\ response' = HTTPException("move", 400, "Move not specified in payload.")
            /\ UNCHANGED <<matrix, moves_applied>>
       ELSE LET result == execute_manipulation(move, matrix)
            IN  IF result.ok
                THEN /\ moves_applied < MaxMoves
                     /\ matrix' = result.matrix
                     /\ moves_applied' = moves_applied + 1
                     /\ response' = Ok("move", [move |-> move,
                                                cube_string |-> to_kociemba_string(result.matrix)])
                ELSE /\ matrix' = result.matrix
                     /\ UNCHANGED moves_applied
                     /\ response' = HTTPException("move", 400, result.error)

\* GET /solve with a handler that also plays the solution it got on the engine
discover_solution_path_plays_solution ==
    /\ TokUnchanged
    /\ UNCHANGED moves_applied
    /\ LET current_state_str == to_kociemba_string(matrix)
       IN  IF current_state_str = SOLVED_KOCIEMBA_STRING
           THEN /\ oracle_calls' = <<>>
                /\ oracle_outcome' = NoOutcome
                /\ UNCHANGED matrix
                /\ response' = Ok("solve", [solutionString |-> <<>>, parsedMoves |-> <<>>])
           ELSE /\ oracle_calls' = <<current_state_str>>
                /\ \/ \E ts \in OracleSamples :
                        LET solution_path == Render(ts)
                            move_sequence == _tokenize_solution_string(solution_path)
                        IN  /\ oracle_outcome' = Returned(solution_path)
                            /\ matrix' = _get_pristine_state
                            /\ response' = Ok("solve", [solutionString |-> solution_path,
                                                        parsedMoves |-> move_sequence])
                   \/ \E e \in OracleRejections :
                        /\ oracle_outcome' = Raised("ValueError", e)
                        /\ UNCHANGED matrix
                        /\ response' = HTTPException("solve", 400, e)
                   \/ /\ oracle_outcome' = Raised("Exception", "solver fault")
                      /\ UNCHANGED matrix
                      /\ response' = HTTPException("solve", 500,
                                         "An internal error occurred during solving.")

\* GET /solve with "except Exception" placed before "except ValueError"
discover_solution_path_except_order ==
    /\ TokUnchanged
    /\ UNCHANGED <<matrix, moves_applied>>
    /\ LET current_state_str == to_kociemba_string(matrix)
       IN  IF current_state_str = SOLVED_KOCIEMBA_STRING
           THEN /\ oracle_calls' = <<>>
                /\ oracle_outcome' = NoOutcome
                /\ response' = Ok("solve", [solutionString |-> <<>>, parsedMoves |-> <<>>])
           ELSE /\ oracle_calls' = <<current_state_str>>
                /\ \/ \E ts \in OracleSamples :
                        LET solution_path == Render(ts)
                            move_sequence == _tokenize_solution_string(solution_path)
                        IN  /\ oracle_outcome' = Returned(solution_path)
                            /\ response' = Ok("solve", [solutionString |-> solution_path,
                                                        parsedMoves |-> move_sequence])
                   \/ \E e \in OracleRejections :
                        /\ oracle_outcome' = Raised("ValueError", e)
                        /\ response' = HTTPException("solve", 500,
                                           "An internal error occurred during solving.")
                   \/ /\ oracle_outcome' = Raised("Exception", "solver fault")
                      /\ response' = HTTPException("solve", 500,
                                         "An internal error occurred during solving.")

\* GET /solve
discover_solution_path ==
    /\ TokUnchanged
    /\ UNCHANGED <<matrix, moves_applied>>
    /\ LET current_state_str == to_kociemba_string(matrix)
       IN  IF current_state_str = SOLVED_KOCIEMBA_STRING
           THEN /\ oracle_calls' = <<>>
                /\ oracle_outcome' = NoOutcome
                /\ response' = Ok("solve", [solutionString |-> <<>>, parsedMoves |-> <<>>])
           ELSE /\ oracle_calls' = <<current_state_str>>
                /\ \/ \E ts \in OracleSamples :
                        LET solution_path == Render(ts)
                            move_sequence == _tokenize_solution_string(solution_path)
                        IN  /\ oracle_outcome' = Returned(solution_path)
                            /\ response' = Ok("solve", [solutionString |-> solution_path,
                                                        parsedMoves |-> move_sequence])
                   \/ \E e \in OracleRejections :
                        /\ oracle_outcome' = Raised("ValueError", e)
                        /\ response' = HTTPException("solve", 400, e)
                   \/ /\ oracle_outcome' = Raised("Exception", "solver fault")
                      /\ response' = HTTPException("solve", 500,
                                         "An internal error occurred during solving.")

\* reset_to_solved that builds the pristine state and drops it
reset_to_solved_discarded(m) == m

\* Polyhedron.reset_to_solved
reset_to_solved(m) == _get_pristine_state

\* POST /reset-cube
restore_pristine_state ==
    /\ TokUnchanged
    /\ matrix' = reset_to_solved(matrix)
    /\ moves_applied' = 0
    /\ oracle_calls' = <<>>
    /\ oracle_outcome' = NoOutcome
    /\ response' = Ok("reset", <<>>)

\* ---- Specification of the service ------------------------------------------------------
NoResponse == [op |-> "none", status |-> 0, body |-> <<>>]

Init ==
    /\ matrix = _get_pristine_state
    /\ response = NoResponse
    /\ oracle_calls = <<>>
    /\ oracle_outcome = NoOutcome
    /\ moves_applied = 0
    /\ requests = <<>>
    /\ served = <<>>
    /\ oracle_moves = <<>>
    /\ solution_str = <<>>
    /\ tokens = <<>>
    /\ tok_pc = "idle"

\* one caller at a time: no request is ever left waiting
ConcUnchanged == UNCHANGED <<requests, served>>

Next ==
    \/ \E move \in Payloads : process_manipulation(move) /\ ConcUnchanged
    \/ discover_solution_path /\ ConcUnchanged
    \/ restore_pristine_state /\ ConcUnchanged

Spec == Init /\ [][Next]_vars

\* ---- Specification of a stand-alone tokenizer run --------------------------------------
\* the solver outputs tokenized: every token list up to MaxSolLen and the documented example
TokenLists == UNION {[1..n -> OracleTokens] : n \in 0..MaxSolLen} \cup {ExampleMoves}

InitTok ==
    /\ matrix = _get_pristine_state
    /\ response = NoResponse
    /\ oracle_calls = <<>>
    /\ oracle_outcome = NoOutcome
    /\ moves_applied = 0
    /\ requests = <<>>
    /\ served = <<>>
    /\ oracle_moves \in TokenLists
    /\ solution_str \in {Render(oracle_moves), Render(oracle_moves) \o <<" ">>}
    /\ tokens = <<>>
    /\ tok_pc = "ready"

Tokenize ==
    /\ tok_pc = "ready"
    /\ tokens' = _tokenize_solution_string(solution_str)
    /\ tok_pc' = "done"
    /\ UNCHANGED <<matrix, response, oracle_calls, oracle_outcome, moves_applied,
                   requests, served, oracle_moves, solution_str>>

NextTok == Tokenize

SpecTok == InitTok /\ [][NextTok]_vars

\* ---- Specification of a caller that sends elementary turns and resets only --------------
ElementaryTokens ==
    {"U", "U'", "D", "D'", "L", "L'", "R", "R'", "F", "F'", "B", "B'"}

NextElementary ==
    \/ \E move \in ElementaryTokens : process_manipulation(move) /\ ConcUnchanged
    \/ restore_pristine_state /\ ConcUnchanged

SpecElementary == Init /\ [][NextElementary]_vars

\* ---- Specification of concurrent callers ------------------------------------------------
\* The handlers are coroutines on the one event loop of the one worker server.py starts: a
\* handler runs alone until it awaits.  process_manipulation awaits request.json() before
\* it touches the grid and never after; the other two handlers never await, and solve() is
\* an ordinary blocking call.

\* process_manipulation up to its await: the request is accepted and waits for its body
AcceptMove(move) ==
    /\ Len(requests) < MaxRequests
    /\ requests' = Append(requests, [kind |-> "move", move |-> move, pc |-> "awaiting_json",
                                     at_arrival |-> matrix, result |-> NoResponse])
    /\ UNCHANGED <<matrix, response, oracle_calls, oracle_outcome, moves_applied, served>>
    /\ TokUnchanged

\* process_manipulation resumed after its await, on the grid as it stood when the request
\* arrived (the handler took a copy before awaiting and writes it back)
ResumeMove_before_await(r) ==
    /\ requests[r].pc = "awaiting_json"
    /\ TokUnchanged
    /\ oracle_calls' = <<>>
    /\ oracle_outcome' = NoOutcome
    /\ LET move == requests[r].move
       IN  IF move = "" \/ move = None
           THEN /\ response' = HTTPException("move", 400, "Move not specified in payload.")
                /\ UNCHANGED <<matrix, moves_applied>>
           ELSE LET result == execute_manipulation(move, requests[r].at_arrival)
                IN  IF result.ok
                    THEN /\ moves_applied < MaxMoves
                         /\ matrix' = result.matrix
                         /\ moves_applied' = moves_applied + 1
                         /\ response' = Ok("move", [move |-> move,
                                           cube_string |-> to_kociemba_string(result.matrix)])
                    ELSE /\ UNCHANGED <<matrix, moves_applied>>
                         /\ response' = HTTPException("move", 400, result.error)
    /\ requests' = [requests EXCEPT ![r].pc = "done", ![r].result = response']
    /\ served' = Append(served, r)

\* process_manipulation from its await to its return, in one piece
ResumeMove(r) ==
    /\ requests[r].pc = "awaiting_json"
    /\ process_manipulation(requests[r].move)
    /\ requests' = [requests EXCEPT ![r].pc = "done", ![r].result = response']
    /\ served' = Append(served, r)

\* discover_solution_path, in one piece
ServeSolve ==
    /\ Len(requests) < MaxRequests
    /\ discover_solution_path
    /\ requests' = Append(requests, [kind |-> "solve", move |-> None, pc |-> "done",
                                     at_arrival |-> matrix, result |-> response'])
    /\ served' = Append(served, Len(requests) + 1)

\* restore_pristine_state, in one piece
ServeReset ==
    /\ Len(requests) < MaxRequests
    /\ restore_pristine_state
    /\ requests' = Append(requests, [kind |-> "reset", move |-> None, pc |-> "done",
                                     at_arrival |-> matrix, result |-> response'])
    /\ served' = Append(served, Len(requests) + 1)

NextConc ==
    \/ \E move \in Payloads : AcceptMove(move)
    \/ \E r \in 1..Len(requests) : ResumeMove(r)
    \/ ServeSolve
    \/ ServeReset

SpecConc == Init /\ [][NextConc]_vars

\* ---- Properties ----------------------------------------------------------------------------
ElementaryFaces == {"U", "D", "L", "R", "F", "B"}

\* the primed counterpart of an unprimed token
Prime(X) == X \o "'"

\* the grid after execute_manipulation(t) on grid g
After(t, g) == execute_manipulation(t, g).matrix

\* the solved string written out: position k holds the letter of face (k - 1) \div 9
SolvedString == [k \in 1..54 |-> FaceLetters[((k - 1) \div 9) + 1]]

\* C1: for every face X, X followed by X' and X' followed by X both leave the grid
\* unchanged in all 54 positions, whatever grid the moves have produced so far.
InverseLawElementary ==
    \A X \in ElementaryFaces :
        /\ After(Prime(X), After(X, matrix)) = matrix
        /\ After(X, After(Prime(X), matrix)) = matrix

\* C2: M followed by M' and M' followed by M both leave the grid unchanged in all 54
\* positions, whatever grid the moves have produced so far.
InverseLawMiddle ==
    /\ After("M'", After("M", matrix)) = matrix
    /\ After("M", After("M'", matrix)) = matrix

\* C3: for every supported token t, four applications of t in a row leave the grid
\* unchanged in all 54 positions, whatever grid the moves have produced so far.
OrderFourLaw ==
    \A t \in MoveTokens :
        After(t, After(t, After(t, After(t, matrix)))) = matrix

\* the center sticker of face f
Center(f) == matrix[f][1][1]

\* C4 as stated: after any sequence of supported moves and resets the center of every
\* face holds the face's own color.
CenterInvariant == \A f \in FaceIds : Center(f) = f

\* the faces the middle slice runs through, in the order Up, Front, Down, Back
SliceRing == <<0, 2, 3, 5>>

\* C4 as amended: after any sequence of supported moves and resets the centers of Right
\* and Left hold their own colors, and the centers of Up, Front, Down and Back hold the
\* colors 0, 2, 3, 5 shifted cyclically along Up -> Front -> Down -> Back.
CentersShiftedAlongSlice ==
    /\ Center(1) = 1
    /\ Center(4) = 4
    /\ \E k \in 0..3 : \A i \in 1..4 : Center(SliceRing[i]) = SliceRing[((i - 1 + k) % 4) + 1]

\* C4 witness: M has been applied once and the Up center now holds the Front color.
CentersShiftedWitness ==
    /\ moves_applied = 1
    /\ response.op = "move" /\ response.status = 200
    /\ response.body.move = "M"
    /\ Center(0) = 2 /\ Center(2) = 3 /\ Center(3) = 5 /\ Center(5) = 0

\* number of stickers of color v on the grid, and of letter ch in a string
ColorCount(v) ==
    Cardinality({p \in FaceIds \X Idx \X Idx : matrix[p[1]][p[2]][p[3]] = v})
LetterCount(str, ch) == Cardinality({k \in 1..Len(str) : str[k] = ch})

\* C5: after any sequence of moves, rejected moves, solution requests and resets the
\* grid holds exactly 9 stickers of each of the 6 colors and the canonical string has
\* 54 characters, each of the 6 letters exactly 9 times.
Conservation ==
    /\ \A v \in FaceIds : ColorCount(v) = 9
    /\ LET str == to_kociemba_string(matrix)
       IN  /\ Len(str) = 54
           /\ \A ch \in {"U", "R", "F", "D", "L", "B"} : LetterCount(str, ch) = 9

\* C5 witness: two moves, one of them a middle-slice turn, have scrambled the grid and a
\* rejected move has been answered since.
ConservationWitness ==
    /\ moves_applied = 2
    /\ response.op = "move" /\ response.status = 400
    /\ Center(0) # 0
    /\ matrix[1] # _get_pristine_state[1]

RejectedPayloads == Payloads \ MoveTokens

\* the error detail a rejected payload is answered with
RejectionDetail(move) ==
    IF move \in {"", None}
    THEN "Move not specified in payload."
    ELSE "Unknown move notation: " \o move

\* C6: a /move request whose token is not one of the fourteen supported strings is
\* answered with status 400 and the matching detail, and leaves all 54 positions as
\* they were.
RejectedTokensDoNotMutate ==
    [][\A move \in RejectedPayloads :
          process_manipulation(move) =>
              /\ matrix' = matrix
              /\ response'.status = 400
              /\ response'.body.detail = RejectionDetail(move)]_vars

\* C6 witness: the token R2 has been rejected on a scrambled grid.
RejectedTokensWitness ==
    /\ moves_applied = 2
    /\ matrix # _get_pristine_state
    /\ response.op = "move" /\ response.status = 400
    /\ response.body.detail = "Unknown move notation: R2"

\* C7: right after construction and right after a reset every sticker of face i equals i
\* and the grid serializes to the solved string; a second reset changes nothing.
ResetYieldsSolved ==
    /\ response.op \in {"none", "reset"} =>
           /\ \A f \in FaceIds : \A r \in Idx : \A c \in Idx : matrix[f][r][c] = f
           /\ to_kociemba_string(matrix) = SolvedString
    /\ reset_to_solved(reset_to_solved(matrix)) = reset_to_solved(matrix)
    /\ to_kociemba_string(reset_to_solved(matrix)) = SolvedString

\* C7 witness: a reset has been answered and the grid is the solved one.
ResetYieldsSolvedWitness ==
    /\ response.op = "reset" /\ response.status = 200
    /\ moves_applied = 0
    /\ to_kociemba_string(matrix) = SolvedString

\* C8: the canonical string has length 54 and its character at 9f + 3r + c (counted from
\* 0) is the role letter of the sticker at grid[f][r][c]; the string a /move request
\* returns is laid out so over the grid the request leaves behind.
SerializerLayout ==
    /\ LET str == to_kociemba_string(matrix)
       IN  /\ Len(str) = 54
           /\ \A f \in FaceIds : \A r \in Idx : \A c \in Idx :
                  str[9 * f + 3 * r + c + 1] = FaceLetters[matrix[f][r][c] + 1]
    /\ (response.op = "move" /\ response.status = 200) =>
           /\ Len(response.body.cube_string) = 54
           /\ \A f \in FaceIds : \A r \in Idx : \A c \in Idx :
                  response.body.cube_string[9 * f + 3 * r + c + 1] =
                      FaceLetters[matrix[f][r][c] + 1]

\* C8 witness: after F the string shows the Left color at Up's bottom-left position and
\* the Up color at Right's bottom-left position.
SerializerLayoutWitness ==
    /\ moves_applied = 1
    /\ response.op = "move" /\ response.status = 200
    /\ response.body.move = "F"
    /\ matrix[0][2][0] = 4 /\ response.body.cube_string[7] = "L"
    /\ matrix[1][2][0] = 0 /\ response.body.cube_string[16] = "U"

\* C9: a solution requested while the grid serializes to the solved string is answered
\* with the empty solution string and the empty move list and makes no call of the
\* oracle; the oracle is only ever called on a string other than the solved one.
SolvedShortCircuit ==
    /\ (response.op = "solve" /\ to_kociemba_string(matrix) = SolvedString) =>
           /\ response.status = 200
           /\ oracle_calls = <<>>
           /\ response.body.solutionString = <<>>
           /\ response.body.parsedMoves = <<>>
    /\ \A k \in 1..Len(oracle_calls) : oracle_calls[k] # SolvedString

\* C9 witness: two moves have brought the grid back to solved, no reset in between, and
\* the solution request was answered without the oracle.
SolvedShortCircuitWitness ==
    /\ moves_applied = 2
    /\ to_kociemba_string(matrix) = SolvedString
    /\ response.op = "solve" /\ response.status = 200
    /\ oracle_calls = <<>>
    /\ response.body.parsedMoves = <<>>

\* the entry the tokenizer is to return for the oracle token t
ExpectedEntry(t) ==
    IF Len(t) = 2 /\ t[2] = "2"
    THEN PyList(<< <<t[1]>>, <<t[1]>> >>)
    ELSE PyStr(t)

\* C10: the tokenizer returns one entry per token of its input, in order: the pair
\* [X, X] for X2, the token itself for X and X'; "R2 U F' D2" gives [[R,R], U, F', [D,D]]
\* and the empty string gives the empty list.
TokenizerContract ==
    tok_pc = "done" =>
        /\ Len(tokens) = Len(oracle_moves)
        /\ \A k \in 1..Len(oracle_moves) : tokens[k] = ExpectedEntry(oracle_moves[k])
        /\ oracle_moves = ExampleMoves =>
               tokens = << PyList(<< <<"R">>, <<"R">> >>), PyStr(<<"U">>),
                           PyStr(<<"F", "'">>), PyList(<< <<"D">>, <<"D">> >>) >>
        /\ solution_str = <<>> => tokens = <<>>

\* C10 witness: "R2 U F' D2" has been tokenized.
TokenizerContractWitness ==
    /\ tok_pc = "done"
    /\ solution_str = <<"R", "2", " ", "U", " ", "F", "'", " ", "D", "2">>
    /\ Len(tokens) = 4
    /\ tokens[1] = PyList(<< <<"R">>, <<"R">> >>)
    /\ tokens[3] = PyStr(<<"F", "'">>)

\* C11: a step that answers a solution request, whatever the oracle did, leaves all 54
\* positions of the grid as they were.
SolveDoesNotMutate == [][response'.op = "solve" => matrix' = matrix]_vars

\* C11 witness: a solution returned by the oracle has been passed on for a scrambled grid.
SolveDoesNotMutateWitness ==
    /\ moves_applied = 2
    /\ matrix # _get_pristine_state
    /\ response.op = "solve" /\ response.status = 200
    /\ oracle_outcome.kind = "returned"
    /\ response.body.solutionString # <<>>

\* C12: when the oracle was called, a ValueError it raised is answered with status 400
\* and its message, any other exception with status 500 and the fixed opaque detail, and
\* a returned string with status 200, that string and its tokens.
OracleErrorsDistinguished ==
    (response.op = "solve" /\ oracle_calls # <<>>) =>
        /\ oracle_outcome.kind \in {"returned", "ValueError", "Exception"}
        /\ oracle_outcome.kind = "ValueError" =>
               /\ response.status = 400
               /\ response.body.detail = oracle_outcome.value
        /\ oracle_outcome.kind = "Exception" =>
               /\ response.status = 500
               /\ response.body.detail = "An internal error occurred during solving."
               /\ response.body.detail # oracle_outcome.value
        /\ oracle_outcome.kind = "returned" =>
               /\ response.status = 200
               /\ response.body.solutionString = oracle_outcome.value
               /\ response.body.parsedMoves = _tokenize_solution_string(oracle_outcome.value)

\* C12 witness: the oracle has rejected the string of a scrambled grid and the caller got
\* status 400 with the oracle's message.
OracleErrorsDistinguishedWitness ==
    /\ matrix # _get_pristine_state
    /\ response.op = "solve" /\ response.status = 400
    /\ oracle_calls = <<to_kociemba_string(matrix)>>
    /\ oracle_outcome.kind = "ValueError"
    /\ response.body.detail = "Error. Probably cubestring is invalid"

\* a grid whose 54 stickers are pairwise distinct: what an operation does to it is what
\* it does to the positions of any grid
LabelledGrid == [f \in FaceIds |-> [r \in Idx |-> [c \in Idx |-> 9 * f + 3 * r + c]]]

\* the grids the per-operation laws are evaluated on: the current one and the labelled one
LawGrids == {matrix, LabelledGrid}

\* C13: each of the twelve elementary moves leaves the center of all six faces as it was,
\* on any grid; after elementary moves and resets only, face i has center i.
ElementaryTurnsKeepCenters ==
    /\ \A f \in FaceIds : matrix[f][1][1] = f
    /\ \A t \in ElementaryTokens : \A g \in LawGrids : \A f \in FaceIds :
           After(t, g)[f][1][1] = g[f][1][1]

\* C13 witness: two elementary moves, the last one R', have scrambled the grid.
ElementaryTurnsKeepCentersWitness ==
    /\ moves_applied = 2
    /\ response.op = "move" /\ response.status = 200
    /\ response.body.move = "R'"
    /\ matrix[0][0] # _get_pristine_state[0][0]
    /\ matrix[1] # _get_pristine_state[1]

\* the positions of the middle slice: column 1 of Up, Front, Down and Back
InMiddleSlice(f, c) == f \in {0, 2, 3, 5} /\ c = 1

\* C14: M and M' leave every sticker outside the middle slice where it was.
MiddleSliceFrame ==
    \A t \in {"M", "M'"} : \A f \in FaceIds : \A r \in Idx : \A c \in Idx :
        ~InMiddleSlice(f, c) => After(t, matrix)[f][r][c] = matrix[f][r][c]

\* the strip b holds the stickers of the strip a, in the same or in the reverse order
StripMoved(a, b) == b = a \/ b = Flip(a)

\* the positions F touches: the Front face and the four strips around it
TouchedByFront(f, r, c) ==
    \/ f = 2
    \/ f = 0 /\ r = 2
    \/ f = 1 /\ c = 0
    \/ f = 3 /\ r = 0
    \/ f = 4 /\ c = 2

\* C16: F turns the Front matrix clockwise (new F[r][c] = old F[2-c][r]), moves Up's
\* bottom row to Right's left column, that column to Down's top row, that row to Left's
\* right column and that column to Up's bottom row, and leaves the other 33 positions.
FrontClockwiseCycle ==
    \A g \in LawGrids :
        LET h == After("F", g)
        IN  /\ \A r \in Idx : \A c \in Idx : h[2][r][c] = g[2][2 - c][r]
            /\ StripMoved(Row(g[0], 2), Col(h[1], 0))
            /\ StripMoved(Col(g[1], 0), Row(h[3], 0))
            /\ StripMoved(Row(g[3], 0), Col(h[4], 2))
            /\ StripMoved(Col(g[4], 2), Row(h[0], 2))
            /\ \A f \in FaceIds : \A r \in Idx : \A c \in Idx :
                   ~TouchedByFront(f, r, c) => h[f][r][c] = g[f][r][c]
            /\ Cardinality({p \in FaceIds \X Idx \X Idx :
                               ~TouchedByFront(p[1], p[2], p[3])}) = 33

\* C16 witness: F has been applied to the solved grid: Right's left column holds the Up
\* color, Down's top row the Right color, Left's right column the Down color and Up's
\* bottom row the Left color.
FrontClockwiseCycleWitness ==
    /\ moves_applied = 1
    /\ response.op = "move" /\ response.status = 200
    /\ response.body.move = "F"
    /\ matrix[1][0][0] = 0 /\ matrix[3][0][0] = 1 /\ matrix[4][0][2] = 3 /\ matrix[0][2][0] = 4

\* how often the value v occurs on face f of grid g
FaceCount(g, f, v) == Cardinality({p \in Idx \X Idx : g[f][p[1]][p[2]] = v})

\* face f of grid h holds the stickers face e of grid g held, in some arrangement
SameStickers(h, f, g, e) ==
    \A v \in {g[e][p[1]][p[2]] : p \in Idx \X Idx} \cup {h[f][p[1]][p[2]] : p \in Idx \X Idx} :
        FaceCount(h, f, v) = FaceCount(g, e, v)

Orient4(op(_), g) == op(op(op(op(g))))

\* the laws of the two reorientation helpers on the grid g
OrientationLaws(g) ==
    LET p == _orient_x_pos(g)
        n == _orient_x_neg(g)
    IN  /\ _orient_x_neg(p) = g
        /\ _orient_x_pos(n) = g
        /\ Orient4(_orient_x_pos, g) = g
        /\ Orient4(_orient_x_neg, g) = g
        /\ SameStickers(p, 1, g, 1) /\ SameStickers(p, 4, g, 4)
        /\ SameStickers(n, 1, g, 1) /\ SameStickers(n, 4, g, 4)
        /\ SameStickers(p, 0, g, 2) /\ SameStickers(p, 2, g, 3)
        /\ SameStickers(p, 3, g, 5) /\ SameStickers(p, 5, g, 0)
        /\ SameStickers(n, 0, g, 5) /\ SameStickers(n, 5, g, 3)
        /\ SameStickers(n, 3, g, 2) /\ SameStickers(n, 2, g, 0)

\* C17: _orient_x_pos and _orient_x_neg undo each other in either order, four applications
\* of either restore the grid, each keeps the stickers of Right and of Left on their face,
\* and each moves the contents of Up, Front, Down and Back as wholes round one 4-cycle.
OrientationHelpers == \A g \in LawGrids : OrientationLaws(g)

\* C17 witness: M, which ends with _orient_x_pos, has been applied as the second move, and
\* a further reorientation would change the Right face and the Up face.
OrientationHelpersWitness ==
    /\ moves_applied = 2
    /\ response.op = "move" /\ response.status = 200
    /\ response.body.move = "M"
    /\ _orient_x_pos(matrix)[1] # matrix[1]
    /\ _orient_x_pos(matrix)[0] # matrix[0]
    /\ _orient_x_neg(matrix)[4] # matrix[4]

\* the grid after the requests of the list order have run one at a time, each in one
\* piece, from the solved grid
RECURSIVE GridAfter(_)
GridAfter(order) ==
    IF order = <<>>
    THEN _get_pristine_state
    ELSE LET before == GridAfter(SubSeq(order, 1, Len(order) - 1))
             req == requests[order[Len(order)]]
         IN  IF req.kind = "reset" THEN _get_pristine_state
             ELSE IF req.kind = "move" /\ req.move \in MoveTokens THEN After(req.move, before)
             ELSE before

\* C15: with requests overlapping, the requests served so far form one total order in
\* which each ran in one piece: the grid is what running them one at a time in that order
\* gives, and the cube_string of every answered move is the serialization of that move
\* applied to the grid its predecessors in the order left behind.
WholeOperationAtomicity ==
    /\ matrix = GridAfter(served)
    /\ \A k \in 1..Len(served) : \A j \in 1..Len(served) : served[k] = served[j] => k = j
    /\ \A r \in 1..Len(requests) :
           requests[r].pc = "done" <=> \E k \in 1..Len(served) : served[k] = r
    /\ \A k \in 1..Len(served) :
           LET req == requests[served[k]]
               before == GridAfter(SubSeq(served, 1, k - 1))
           IN  (req.kind = "move" /\ req.result.status = 200) =>
                   req.result.body.cube_string = to_kociemba_string(After(req.move, before))

\* C15 witness: two move requests were waiting at the same time, the second to arrive was
\* served first, and both changed the grid.
WholeOperationAtomicityWitness ==
    /\ Len(requests) = 2
    /\ served = <<2, 1>>
    /\ requests[1].kind = "move" /\ requests[1].result.status = 200
    /\ requests[2].kind = "move" /\ requests[2].result.status = 200
    /\ requests[1].move = "F" /\ requests[2].move = "U"
    /\ requests[1].at_arrival = _get_pristine_state
    /\ requests[1].result.body.cube_string # to_kociemba_string(After("F", _get_pristine_state))
    /\ matrix = After("F", After("U", _get_pristine_state))

====
